---- MODULE Spec2Model ----
(***************************************************************************)
(* A model of src/main/python/data.py of matsim-berlin: the two group      *)
(* classifiers DistanceGroup.cut and DurationGroup.cut, the count coercion *)
(* pint, and the normalizer srv_to_standard.                                *)
(*                                                                         *)
(* Numbers.  Python floats are modelled as fixed-point integers:           *)
(*   - distances in hundredths of a kilometre (0.51 km is 51),             *)
(*   - durations in ten-thousandths of a minute (5.0001 min is 50001),     *)
(*   - every raw survey column and every argument of pint in tenths        *)
(*     (3.7 is 37, -5 is -50).                                             *)
(* Python str values that are parsed (the argument of pint) are sequences  *)
(* of one-character strings; identifiers, which are only composed and      *)
(* compared, are TLA+ strings.                                             *)
(***************************************************************************)
EXTENDS Integers, Sequences, FiniteSets, TLC

VARIABLES
    \* ---- DistanceGroup.cut / DurationGroup.cut
    cgroup,     \* which classifier is called: "distance" or "duration"
    values,     \* the argument of cut: a sequence of numbers
    cpc,        \* "call" before cut runs, "done" after
    cresult,    \* what cut handed back: Returns(labels) or Raises(exception)
    \* ---- pint
    px,         \* the argument of pint: Num(tenths), Str(chars), or a float that is no number
    ppc,        \* "call" before pint runs, "done" after
    presult,    \* what pint handed back: Returns(n) or Raises(exception)
    \* ---- srv_to_standard
    data,       \* the argument: [hh |-> rows, pp |-> rows, tt |-> rows]
    data0,      \* history: the tables as they were handed to the first call
    pc,         \* position in srv_to_standard
    ps,         \* the local ps: the list of Person, then the indexed frame
    hhs,        \* the local hhs
    ts,         \* the local ts
    es_calls,   \* history: the arguments of every SrV2018.economic_status call of this run
    ret,        \* what the last finished call returned or raised
    run,        \* number of calls of srv_to_standard started so far
    ret1        \* history: what the first call returned or raised

cvars == <<cgroup, values, cpc, cresult>>
pvars == <<px, ppc, presult>>
svars == <<data, data0, pc, ps, hhs, ts, es_calls, ret, run, ret1>>
vars == <<cvars, pvars, svars>>

None == [exc |-> "nothing", val |-> <<>>]

Max(a, b) == IF a >= b THEN a ELSE b

(***************************************************************************)
(* The classifiers                                                         *)
(***************************************************************************)

\* Largest distance tried, in hundredths of a kilometre (150 km), and the
\* largest duration tried, in whole minutes.
MaxDistance == 15000
MaxMinutes == 1000

\* The members of DistanceGroup in declaration order: np.asarray(DistanceGroup).
DistanceGroup ==
    <<"ZERO", "G_500M", "G_1KM", "G_2KM", "G_3KM", "G_5KM", "G_10KM",
      "G_25KM", "G_50KM", "G_100KM", "OVER_100KM">>

\* bins of DistanceGroup.cut, [0, 0.5, 1, 2, 3, 5, 10, 25, 50, 100] km, in
\* hundredths of a kilometre.
DistanceBins == <<0, 50, 100, 200, 300, 500, 1000, 2500, 5000, 10000>>

\* The members of DurationGroup in declaration order.
DurationGroup ==
    <<"G_5MIN", "G_15MIN", "G_30MIN", "G_60MIN", "G_120MIN", "G_180MIN",
      "G_300MIN", "G_420MIN", "G_480MIN", "G_510MIN", "G_570MIN",
      "G_660MIN", "G_750MIN", "REST_OF_DAY">>

\* m minutes in ten-thousandths of a minute.
Minutes(m) == m * 10000

\* bins of DurationGroup.cut, in ten-thousandths of a minute.
DurationBins ==
    <<Minutes(5), Minutes(15), Minutes(30), Minutes(60), Minutes(120),
      Minutes(180), Minutes(300), Minutes(420), Minutes(480), Minutes(510),
      Minutes(570), Minutes(660), Minutes(750)>>

\* The binary search of np.searchsorted(bins, x, side) on the half-open
\* index range lo..hi (0-based): side "left" finds the first index whose
\* bin is >= x, side "right" the first whose bin is > x.
RECURSIVE SearchSorted(_, _, _, _, _)
SearchSorted(bins, x, side, lo, hi) ==
    IF lo >= hi THEN lo
    ELSE LET mid == lo + ((hi - lo) \div 2)
             below == IF side = "left" THEN bins[mid + 1] < x
                                       ELSE bins[mid + 1] <= x
         IN IF below THEN SearchSorted(bins, x, side, mid + 1, hi)
                     ELSE SearchSorted(bins, x, side, lo, mid)

\* A slip: np.digitize called without right=True (bins[i-1] <= x < bins[i]).
DigitizeRightOpen(x, bins) == SearchSorted(bins, x, "right", 0, Len(bins))

\* np.digitize(x, bins, right=True) for increasing bins: the index i with
\* bins[i-1] < x <= bins[i], which numpy computes as searchsorted side left.
Digitize(x, bins) == SearchSorted(bins, x, "left", 0, Len(bins))

\* np.take(labels, idx, axis=0) for one index: a negative index counts
\* from the end, an index outside the array raises IndexError.
Take(labels, idx) ==
    IF idx \in 0..(Len(labels) - 1) THEN labels[idx + 1]
    ELSE IF idx \in (-Len(labels))..(-1) THEN labels[Len(labels) + idx + 1]
    ELSE "IndexError"

\* The index DistanceGroup.cut computes for one value: digitize, then the
\* ZERO group set by hand for values <= 0.
DistanceIdx(v) ==
    LET idx == Digitize(v, DistanceBins)
    IN IF v <= 0 THEN 0 ELSE idx

\* The index DurationGroup.cut computes for one value.
DurationIdx(v) == Digitize(v, DurationBins)

\* What a call hands back: the value it returns, or the exception it raises.
Returns(v) == [exc |-> "none", val |-> v]
Raises(e) == [exc |-> e, val |-> <<>>]

\* np.take over the whole index array: one bad index fails the call.
TakeAll(labels, idxs) ==
    IF \E k \in DOMAIN idxs : Take(labels, idxs[k]) = "IndexError"
    THEN Raises("IndexError")
    ELSE Returns([k \in DOMAIN idxs |-> Take(labels, idxs[k])])

\* A slip: the last edge left out of the bins table of DurationGroup.cut.
DurationGroupCutShortBins(vs) ==
    TakeAll(DurationGroup,
            [k \in DOMAIN vs |->
                Digitize(vs[k], SubSeq(DurationBins, 1, Len(DurationBins) - 1))])

\* DistanceGroup.cut(values)
DistanceGroupCut(vs) == TakeAll(DistanceGroup, [k \in DOMAIN vs |-> DistanceIdx(vs[k])])

\* DurationGroup.cut(values)
DurationGroupCut(vs) == TakeAll(DurationGroup, [k \in DOMAIN vs |-> DurationIdx(vs[k])])

\* The distances and durations handed to cut.
DistanceInputs == (-MaxDistance)..MaxDistance
DurationInputs ==
    {Minutes(m) + d : m \in (-MaxMinutes)..MaxMinutes, d \in {-1, 0, 1}}

SrvIdle ==
    /\ data = [hh |-> <<>>, pp |-> <<>>, tt |-> <<>>]
    /\ data0 = data
    /\ pc = "idle"
    /\ ps = <<>> /\ hhs = <<>> /\ ts = <<>> /\ es_calls = <<>>
    /\ ret = None /\ run = 0 /\ ret1 = None

PintIdle == px = [t |-> "num", v |-> 0, s |-> <<>>] /\ ppc = "idle" /\ presult = None

CutIdle == cgroup = "none" /\ values = <<>> /\ cpc = "idle" /\ cresult = None

InitCut ==
    /\ \/ cgroup = "distance" /\ \E v \in DistanceInputs : values = <<v>>
       \/ cgroup = "duration" /\ \E v \in DurationInputs : values = <<v>>
    /\ cpc = "call"
    /\ cresult = None
    /\ PintIdle
    /\ SrvIdle

CallDistanceCut ==
    /\ cpc = "call" /\ cgroup = "distance"
    /\ cresult' = DistanceGroupCut(values)
    /\ cpc' = "done"
    /\ UNCHANGED <<cgroup, values, pvars, svars>>

CallDurationCut ==
    /\ cpc = "call" /\ cgroup = "duration"
    /\ cresult' = DurationGroupCut(values)
    /\ cpc' = "done"
    /\ UNCHANGED <<cgroup, values, pvars, svars>>

NextCut == CallDistanceCut \/ CallDurationCut

SpecCut == InitCut /\ [][NextCut]_vars

(***************************************************************************)
(* Claims about the classifiers                                            *)
(***************************************************************************)

\* The upper edges and labels the claims name, written out independently of
\* the tables of the code: 0.5 .. 100 km in hundredths of a kilometre, and
\* 5 .. 750 minutes in ten-thousandths of a minute.
ClaimDistanceEdges == <<50, 100, 200, 300, 500, 1000, 2500, 5000, 10000>>
ClaimDistanceLabels ==
    <<"G_500M", "G_1KM", "G_2KM", "G_3KM", "G_5KM", "G_10KM", "G_25KM",
      "G_50KM", "G_100KM">>
ClaimDurationEdges ==
    <<50000, 150000, 300000, 600000, 1200000, 1800000, 3000000, 4200000,
      4800000, 5100000, 5700000, 6600000, 7500000>>
ClaimDurationLabels ==
    <<"G_5MIN", "G_15MIN", "G_30MIN", "G_60MIN", "G_120MIN", "G_180MIN",
      "G_300MIN", "G_420MIN", "G_480MIN", "G_510MIN", "G_570MIN",
      "G_660MIN", "G_750MIN">>

\* label is the label of the bucket of v: the bucket i with
\* edges[i-1] < v <= edges[i], where the first bucket starts above `floor`
\* (or has no lower edge when unbounded is TRUE).
InBucket(v, label, edges, labels, unbounded, floor) ==
    \E i \in DOMAIN edges :
        /\ v <= edges[i]
        /\ IF i = 1 THEN unbounded \/ floor < v ELSE edges[i - 1] < v
        /\ label = labels[i]

DistanceCutDone == cpc = "done" /\ cgroup = "distance"
DurationCutDone == cpc = "done" /\ cgroup = "duration"

\* C1: DistanceGroup.cut([v]) returns ZERO when v <= 0, the label of the
\* bucket i with boundary[i-1] < v <= boundary[i] over the upper edges
\* 0.5 .. 100 km, and OVER_100KM when v > 100; cut([0.5]) is G_500M,
\* cut([0.51]) is G_1KM, cut([150]) is OVER_100KM; the index never leaves
\* the 11 labels (the call never raises IndexError).
C1_DistanceCut ==
    DistanceCutDone =>
        LET v == values[1]
            r == cresult
        IN /\ r.exc = "none"
           /\ Len(r.val) = 1
           /\ DistanceIdx(v) \in 0..10
           /\ v <= 0 => r.val[1] = "ZERO"
           /\ v > 10000 => r.val[1] = "OVER_100KM"
           /\ (0 < v /\ v <= 10000) =>
                 InBucket(v, r.val[1], ClaimDistanceEdges, ClaimDistanceLabels, FALSE, 0)
           /\ v = 50 => r.val[1] = "G_500M"
           /\ v = 51 => r.val[1] = "G_1KM"
           /\ v = 15000 => r.val[1] = "OVER_100KM"

\* C1's case: cut([0.5]) has returned G_500M.
C1_Witness ==
    DistanceCutDone /\ values = <<50>> /\ cresult.exc = "none" /\ cresult.val = <<"G_500M">>

\* C2: DurationGroup.cut([v]) returns the label of the first bucket whose
\* upper edge (5 .. 750 minutes) is >= v, an edge value falling into the
\* bucket it closes, and REST_OF_DAY when v > 750; cut([5]) is G_5MIN,
\* cut([5.0001]) is G_15MIN, cut([1000]) is REST_OF_DAY; the index never
\* leaves the 14 labels.
C2_DurationCut ==
    DurationCutDone =>
        LET v == values[1]
            r == cresult
        IN /\ r.exc = "none"
           /\ Len(r.val) = 1
           /\ DurationIdx(v) \in 0..13
           /\ v > 7500000 => r.val[1] = "REST_OF_DAY"
           /\ v <= 7500000 =>
                 InBucket(v, r.val[1], ClaimDurationEdges, ClaimDurationLabels, TRUE, 0)
           /\ \A i \in DOMAIN ClaimDurationEdges :
                 v = ClaimDurationEdges[i] => r.val[1] = ClaimDurationLabels[i]
           /\ v = 50000 => r.val[1] = "G_5MIN"
           /\ v = 50001 => r.val[1] = "G_15MIN"
           /\ v = 10000000 => r.val[1] = "REST_OF_DAY"

\* C2's case: cut([5.0001]) has returned G_15MIN.
C2_Witness ==
    DurationCutDone /\ values = <<50001>> /\ cresult.exc = "none" /\ cresult.val = <<"G_15MIN">>

(***************************************************************************)
(* pint                                                                    *)
(***************************************************************************)

\* Largest magnitude handed to pint, in tenths (6.0).
MaxPintInput == 60

\* A Python value handed to int(): a finite number v (in tenths), a str s
\* (its characters), or one of float("nan"), float("inf"), float("-inf").
Num(v) == [t |-> "num", v |-> v, s |-> <<>>]
Str(chars) == [t |-> "str", v |-> 0, s |-> chars]
NaN == [t |-> "nan", v |-> 0, s |-> <<>>]
Inf == [t |-> "inf", v |-> 1, s |-> <<>>]
NegInf == [t |-> "inf", v |-> -1, s |-> <<>>]

DigitChars == <<"0", "1", "2", "3", "4", "5", "6", "7", "8", "9">>
IsDigit(c) == \E d \in DOMAIN DigitChars : DigitChars[d] = c
DigitVal(c) == (CHOOSE d \in DOMAIN DigitChars : DigitChars[d] = c) - 1

\* str.strip() of the blanks int() ignores around a literal.
RECURSIVE Strip(_)
Strip(s) ==
    IF s = <<>> THEN s
    ELSE IF Head(s) = " " THEN Strip(Tail(s))
    ELSE IF s[Len(s)] = " " THEN Strip(SubSeq(s, 1, Len(s) - 1))
    ELSE s

\* The value of a non-empty run of decimal digits.
RECURSIVE DigitsValue(_)
DigitsValue(s) ==
    IF s = <<>> THEN 0
    ELSE 10 * DigitsValue(SubSeq(s, 1, Len(s) - 1)) + DigitVal(s[Len(s)])

\* int(s) for a str: blanks stripped, an optional sign, then decimal digits
\* only; anything else raises ValueError.
IntOfStr(s) ==
    LET t == Strip(s)
        signed == t # <<>> /\ Head(t) \in {"+", "-"}
        body == IF signed THEN Tail(t) ELSE t
        sign == IF signed /\ Head(t) = "-" THEN -1 ELSE 1
    IN IF body # <<>> /\ \A k \in DOMAIN body : IsDigit(body[k])
       THEN Returns(sign * DigitsValue(body))
       ELSE Raises("ValueError")

\* int(x) for a float in tenths: the fraction is dropped, toward zero.
Trunc(v) == IF v >= 0 THEN v \div 10 ELSE -((-v) \div 10)

\* int(x): truncation for a number, parsing for a str, ValueError for NaN
\* and OverflowError for an infinity.
PyInt(x) ==
    CASE x.t = "num" -> Returns(Trunc(x.v))
      [] x.t = "str" -> IntOfStr(x.s)
      [] x.t = "nan" -> Raises("ValueError")
      [] x.t = "inf" -> Raises("OverflowError")

\* A slip: max(0, .) left out, pint is int.
PintNoClamp(x) == PyInt(x)

\* A slip: an input int() rejects is clamped to 0 instead of failing.
PintClampsInvalid(x) ==
    LET n == PyInt(x)
    IN IF n.exc = "none" THEN Returns(Max(0, n.val)) ELSE Returns(0)

\* pint(x): max(0, int(x)); an exception of int(x) propagates.
Pint(x) ==
    LET n == PyInt(x)
    IN IF n.exc = "none" THEN Returns(Max(0, n.val)) ELSE n

\* The str arguments tried: "abc", "", "12", "-5", " 7 ", "3.7", "+".
StrInputs ==
    { <<"a", "b", "c">>, <<>>, <<"1", "2">>, <<"-", "5">>, <<" ", "7", " ">>,
      <<"3", ".", "7">>, <<"+">> }

PintInputs ==
    {Num(v) : v \in (-MaxPintInput)..MaxPintInput}
        \cup {Str(s) : s \in StrInputs} \cup {NaN, Inf, NegInf}

InitPint ==
    /\ px \in PintInputs
    /\ ppc = "call"
    /\ presult = None
    /\ CutIdle
    /\ SrvIdle

CallPint ==
    /\ ppc = "call"
    /\ presult' = Pint(px)
    /\ ppc' = "done"
    /\ UNCHANGED <<px, cvars, svars>>

NextPint == CallPint

SpecPint == InitPint /\ [][NextPint]_vars

\* C6: for every numeric x, pint(x) returns a non-negative integer equal to
\* max(0, x truncated toward zero): 0 for a negative x, x without its
\* fraction for a positive x; pint(-5) is 0 and pint(3.7) is 3.
C6_PintNumeric ==
    (ppc = "done" /\ px.t = "num") =>
        LET x == px.v
            r == presult.val
        IN /\ presult.exc = "none"
           /\ r \in Nat
           /\ x < 0 => r = 0
           /\ x >= 0 => (10 * r <= x /\ x < 10 * (r + 1))
           /\ x = -50 => r = 0
           /\ x = 37 => r = 3

\* C6's case: pint(3.7) has returned 3.
C6_Witness ==
    ppc = "done" /\ px = Num(37) /\ presult.exc = "none" /\ presult.val = 3

MaxRows == 4
MaxRuns == 2

\* The household, person and trip numbers of the raw rows (1.0 and 2.0).
HHNRs == {10, 20}
PNRs == {10, 20}

\* The count and income columns of a household row: a household of two with
\* a car and bikes, and a row of missing-value codes (-7, -1) among counts.
CountColumns ==
    { [V_ANZ_PERS |-> 20, V_ANZ_PKW_PRIV |-> 10, V_ANZ_PKW_DIENST |-> 0,
       V_ANZ_RAD |-> 15, V_ANZ_ERAD |-> 10, V_ANZ_MOT125 |-> 0,
       V_ANZ_MOPMOT |-> 0, V_ANZ_SONST |-> 10, V_EINK |-> 30],
      [V_ANZ_PERS |-> -70, V_ANZ_PKW_PRIV |-> -70, V_ANZ_PKW_DIENST |-> 10,
       V_ANZ_RAD |-> -10, V_ANZ_ERAD |-> 5, V_ANZ_MOT125 |-> -70,
       V_ANZ_MOPMOT |-> 0, V_ANZ_SONST |-> 0, V_EINK |-> -70] }

\* The time columns of a trip row: 8:00 for 15.5 minutes, and missing-value
\* codes.
TimeColumns ==
    { [E_BEGINN |-> 4800, E_DAUER |-> 155, E_WEG_GUELTIG |-> 10],
      [E_BEGINN |-> -10, E_DAUER |-> -70, E_WEG_GUELTIG |-> 0] }

HouseholdRows ==
    { [HHNR |-> h] @@ c : h \in HHNRs, c \in CountColumns }
PersonRows ==
    { [HHNR |-> h, PNR |-> n, V_ALTER |-> 355] : h \in HHNRs, n \in PNRs }
TripRows ==
    { [HHNR |-> h, PNR |-> 10, WNR |-> 10] @@ c : h \in HHNRs, c \in TimeColumns }

\* The sequences of length n over a set of rows.
Table(rows, n) == [1..n -> rows]

\* str(n) of an int.
PyStr(n) == ToString(n)

\* int(x) of a number read from a raw column.
IntOf(v) == PyInt(Num(v)).val

\* The identifiers srv_to_standard composes.
HouseholdId(row) == PyStr(IntOf(row.HHNR))
PersonId(row) == PyStr(IntOf(row.HHNR)) \o "_" \o PyStr(IntOf(row.PNR))
TripId(row) ==
    PyStr(IntOf(row.HHNR)) \o "_" \o PyStr(IntOf(row.PNR)) \o "_" \o PyStr(IntOf(row.WNR))

\* The Person built from a raw person row.
Person(p) ==
    [p_id |-> PersonId(p), hh |-> HouseholdId(p), age |-> IntOf(p.V_ALTER)]

\* SrV2018.economic_status(raw income code, person subset): UNKNOWN for a
\* missing or invalid code and for a household without persons, otherwise
\* a status fixed by the income level and the size of the subset.
EconomicStatus(v_eink, persons) ==
    IF v_eink <= 0 \/ persons = <<>>
    THEN [status |-> "UNKNOWN", level |-> 0, size |-> 0]
    ELSE [status |-> "KNOWN", level |-> Trunc(v_eink), size |-> Len(persons)]

\* A slip: the whole person frame handed on instead of the household's rows.
PersonSubsetAll(frame, hh_id) == frame

\* ps[ps.hh == hh_id]: the rows of the frame whose hh is hh_id, in order.
PersonSubset(frame, hh_id) ==
    LET OfHousehold(p) == p.hh = hh_id
    IN SelectSeq(frame, OfHousehold)

\* The Household built from a raw household row and the person frame.
Household(h, frame) ==
    [hh_id |-> HouseholdId(h),
     n_persons |-> Pint(Num(h.V_ANZ_PERS)).val,
     n_cars |-> Pint(Num(h.V_ANZ_PKW_PRIV + h.V_ANZ_PKW_DIENST)).val,
     n_bikes |-> Pint(Num(h.V_ANZ_RAD + h.V_ANZ_ERAD)).val,
     n_other_vehicles |-> Pint(Num(h.V_ANZ_MOT125 + h.V_ANZ_MOPMOT + h.V_ANZ_SONST)).val,
     economic_status |-> EconomicStatus(h.V_EINK, PersonSubset(frame, HouseholdId(h))),
     regionType |-> 0]

\* The Trip built from a raw trip row.
Trip(t) ==
    [t_id |-> TripId(t),
     p_id |-> PersonId(t),
     n |-> IntOf(t.WNR),
     departure |-> IntOf(t.E_BEGINN),
     duration |-> IntOf(t.E_DAUER),
     valid |-> t.E_WEG_GUELTIG # 0]

\* pd.DataFrame(records).set_index(key): a list without records makes a
\* frame without columns, on which set_index raises KeyError; otherwise the
\* key column becomes the index, whatever it holds (verify_integrity is
\* False by default).
SetIndex(records, key) ==
    IF records = <<>> THEN Raises("KeyError") ELSE Returns(records)

\* The index of a frame whose index was made of column key.
Index(frame, key) == [k \in DOMAIN frame |-> frame[k][key]]

Range(f) == {f[k] : k \in DOMAIN f}

Init ==
    /\ \E a, b, c \in 0..MaxRows :
          /\ a + b + c <= MaxRows
          /\ \E hh \in Table(HouseholdRows, a), pp \in Table(PersonRows, b),
                tt \in Table(TripRows, c) :
                data = [hh |-> hh, pp |-> pp, tt |-> tt]
    /\ data0 = data
    /\ pc = "idle"
    /\ ps = <<>> /\ hhs = <<>> /\ ts = <<>> /\ es_calls = <<>>
    /\ ret = None /\ run = 0 /\ ret1 = None
    /\ CutIdle
    /\ PintIdle

\* The call ends: handing back r.
Finish(r) ==
    /\ pc' = "done"
    /\ ret' = r
    /\ ret1' = IF run = 1 THEN r ELSE ret1

\* A call of srv_to_standard(data) starts: lines 271-275.
Call ==
    /\ pc \in {"idle", "done"}
    /\ run < MaxRuns
    /\ run' = run + 1
    /\ pc' = "persons"
    /\ ps' = <<>> /\ hhs' = <<>> /\ ts' = <<>> /\ es_calls' = <<>>
    /\ ret' = None
    /\ UNCHANGED <<data, data0, ret1, cvars, pvars>>

\* A slip: the person loop takes each row out of the raw table it reads.
PersonStepConsumes ==
    /\ pc = "persons"
    /\ data.pp # <<>>
    /\ ps' = Append(ps, Person(Head(data.pp)))
    /\ data' = [data EXCEPT !.pp = Tail(@)]
    /\ UNCHANGED <<data0, pc, hhs, ts, es_calls, ret, run, ret1, cvars, pvars>>

\* One turn of the loop over pp.itertuples(): lines 276-294.
PersonStep ==
    /\ pc = "persons"
    /\ Len(ps) < Len(data.pp)
    /\ ps' = Append(ps, Person(data.pp[Len(ps) + 1]))
    /\ UNCHANGED <<data, data0, pc, hhs, ts, es_calls, ret, run, ret1, cvars, pvars>>

\* The person loop is over: ps becomes the frame indexed by p_id and hhs the
\* empty list, lines 296-298.
PersonIndex ==
    /\ pc = "persons"
    /\ Len(ps) >= Len(data.pp)
    /\ LET frame == SetIndex(ps, "p_id")
       IN \/ /\ frame.exc # "none"
             /\ Finish(frame)
             /\ UNCHANGED <<ps, hhs>>
          \/ /\ frame.exc = "none"
             /\ ps' = frame.val
             /\ hhs' = <<>>
             /\ pc' = "households"
             /\ UNCHANGED <<ret, ret1>>
    /\ UNCHANGED <<data, data0, ts, es_calls, run, cvars, pvars>>

\* One turn of the loop over hh.itertuples(): lines 299-315.
HouseholdStep ==
    /\ pc = "households"
    /\ Len(hhs) < Len(data.hh)
    /\ LET h == data.hh[Len(hhs) + 1]
       IN /\ hhs' = Append(hhs, Household(h, ps))
          /\ es_calls' = Append(es_calls,
                [hh_id |-> HouseholdId(h), v_eink |-> h.V_EINK,
                 persons |-> PersonSubset(ps, HouseholdId(h))])
    /\ UNCHANGED <<data, data0, pc, ps, ts, ret, run, ret1, cvars, pvars>>

\* The household loop is over: ts becomes the empty list, line 317.
HouseholdsEnd ==
    /\ pc = "households"
    /\ Len(hhs) >= Len(data.hh)
    /\ ts' = <<>>
    /\ pc' = "trips"
    /\ UNCHANGED <<data, data0, ps, hhs, es_calls, ret, run, ret1, cvars, pvars>>

\* One turn of the loop over tt.itertuples(): lines 318-337.
TripStep ==
    /\ pc = "trips"
    /\ Len(ts) < Len(data.tt)
    /\ ts' = Append(ts, Trip(data.tt[Len(ts) + 1]))
    /\ UNCHANGED <<data, data0, pc, ps, hhs, es_calls, ret, run, ret1, cvars, pvars>>

\* The trip loop is over: the return statement of line 339, which indexes
\* the households, then the trips.
Return ==
    /\ pc = "trips"
    /\ Len(ts) >= Len(data.tt)
    /\ LET hframe == SetIndex(hhs, "hh_id")
           tframe == SetIndex(ts, "t_id")
       IN \/ /\ hframe.exc # "none"
             /\ Finish(hframe)
          \/ /\ hframe.exc = "none" /\ tframe.exc # "none"
             /\ Finish(tframe)
          \/ /\ hframe.exc = "none" /\ tframe.exc = "none"
             /\ Finish(Returns([hh |-> hframe.val, pp |-> ps, tt |-> tframe.val]))
    /\ UNCHANGED <<data, data0, ps, hhs, ts, es_calls, run, cvars, pvars>>

Next ==
    \/ Call
    \/ PersonStep
    \/ PersonIndex
    \/ HouseholdStep
    \/ HouseholdsEnd
    \/ TripStep
    \/ Return

Spec == Init /\ [][Next]_vars

(***************************************************************************)
(* Claims about srv_to_standard                                            *)
(***************************************************************************)

\* The call has returned its three collections.
Returned == pc = "done" /\ ret.exc = "none"

\* A sequence holds some value twice.
HasDuplicate(seq) == \E i, j \in DOMAIN seq : i # j /\ seq[i] = seq[j]

\* C3: after srv_to_standard returns, every Person's hh is an index entry of
\* the household collection and every Trip's p_id is an index entry of the
\* person collection.
C3_ReferentialIntegrity ==
    Returned =>
        /\ \A k \in DOMAIN ret.val.pp :
              ret.val.pp[k].hh \in Range(Index(ret.val.hh, "hh_id"))
        /\ \A k \in DOMAIN ret.val.tt :
              ret.val.tt[k].p_id \in Range(Index(ret.val.pp, "p_id"))

\* Two raw rows of one table carry the same natural key.
DuplicateRawKey ==
    \/ \E i, j \in DOMAIN data.hh :
          i # j /\ data.hh[i].HHNR = data.hh[j].HHNR
    \/ \E i, j \in DOMAIN data.pp :
          i # j /\ data.pp[i].HHNR = data.pp[j].HHNR /\ data.pp[i].PNR = data.pp[j].PNR
    \/ \E i, j \in DOMAIN data.tt :
          /\ i # j
          /\ data.tt[i].HHNR = data.tt[j].HHNR
          /\ data.tt[i].PNR = data.tt[j].PNR
          /\ data.tt[i].WNR = data.tt[j].WNR

\* C4: when two raw rows of a table produce the same identifier the call
\* aborts with a fatal error and returns no collections; no returned
\* collection has an index with a duplicated identifier.
C4_DuplicateIdsAbort ==
    /\ (pc = "done" /\ DuplicateRawKey) => ret.exc # "none"
    /\ Returned =>
          /\ ~HasDuplicate(Index(ret.val.hh, "hh_id"))
          /\ ~HasDuplicate(Index(ret.val.pp, "p_id"))
          /\ ~HasDuplicate(Index(ret.val.tt, "t_id"))

\* The raw person rows of the household of raw household row h.
LinkedPersonRows(h) ==
    {k \in DOMAIN data.pp : Trunc(data.pp[k].HHNR) = Trunc(h.HHNR)}

\* C5: the Person pass is complete before any Household is built, and the
\* person subset handed to economic_status for household h is exactly the
\* output Persons whose hh is h: none of another household, none missing.
C5_PersonsBeforeHouseholds ==
    /\ pc = "persons" => (hhs = <<>> /\ es_calls = <<>>)
    /\ (hhs # <<>> \/ es_calls # <<>>) => Len(ps) = Len(data.pp)
    /\ Len(es_calls) = Len(hhs)
    /\ \A c \in DOMAIN es_calls :
          LET call == es_calls[c]
          IN /\ call.hh_id = hhs[c].hh_id
             /\ \A j \in DOMAIN call.persons :
                   call.persons[j].hh = call.hh_id /\ call.persons[j] \in Range(ps)
             /\ \A k \in DOMAIN ps :
                   ps[k].hh = call.hh_id => ps[k] \in Range(call.persons)
             /\ Len(call.persons) = Cardinality(LinkedPersonRows(data.hh[c]))
             /\ Returned => \A k \in DOMAIN ret.val.pp :
                   ret.val.pp[k].hh = call.hh_id <=> ret.val.pp[k] \in Range(call.persons)

\* C5's case: a household was built from its own person while a person of
\* another household was in the frame, and the call returned.
C5_Witness ==
    /\ Returned
    /\ \E c \in DOMAIN es_calls :
          /\ es_calls[c].persons # <<>>
          /\ \E k \in DOMAIN ps : ps[k].hh # es_calls[c].hh_id

NonNegativeCounts(h) ==
    h.n_persons >= 0 /\ h.n_cars >= 0 /\ h.n_bikes >= 0 /\ h.n_other_vehicles >= 0

\* C8: every Household produced has n_persons, n_cars, n_bikes and
\* n_other_vehicles >= 0, whatever the raw count columns hold.
C8_CountsNonNegative ==
    /\ \A k \in DOMAIN hhs : NonNegativeCounts(hhs[k])
    /\ Returned => \A k \in DOMAIN ret.val.hh : NonNegativeCounts(ret.val.hh[k])

\* C8's case: a household row with negative raw counts was returned with
\* counts of 0.
C8_Witness ==
    /\ Returned
    /\ \E k \in DOMAIN data.hh :
          /\ data.hh[k].V_ANZ_PERS < 0
          /\ data.hh[k].V_ANZ_PKW_PRIV + data.hh[k].V_ANZ_PKW_DIENST < 0
          /\ ret.val.hh[k].n_persons = 0
          /\ ret.val.hh[k].n_cars = 0

\* C9: every Trip produced has departure >= 0 and duration >= 0, whatever
\* the raw E_BEGINN and E_DAUER hold.
C9_TripTimesNonNegative ==
    Returned =>
        \A k \in DOMAIN ret.val.tt :
            ret.val.tt[k].departure >= 0 /\ ret.val.tt[k].duration >= 0

====
